---- MODULE Spec2Model ----
(***************************************************************************)
(* AtaraxAi: plan generation and rolling-window adaptation engine.         *)
(*                                                                         *)
(* The database tables Goal, TrainingPlan, Workout and WorkoutLog are      *)
(* sequences of rows (the primary key of a row is its index).  Every       *)
(* endpoint or service entry point is one action.  Dates are day numbers.  *)
(***************************************************************************)
EXTENDS Integers, Sequences, FiniteSets, TLC

(***************************************************************************)
(* Bounds of the model                                                     *)
(***************************************************************************)
MaxDay == 42
MaxGoals == 2
MaxWorkoutId == 1
MaxLogs == 11
NumRequests == 2
\* latest event date of a goal, in weeks from its creation
MaxEventWeeks == 42

\* days between today and the event date offered by a goal-creation request
EventDays == {30, 70}
\* steps by which the wall clock advances between two requests
TickSteps == {7, 21}
\* (perceived_exertion, energy_level) pairs sent with a completion
FeedbackInputs == {<<9, 3>>}

(***************************************************************************)
(* Program constants and enumerations                                      *)
(***************************************************************************)
ROLLING_WEEKS == 2
Null == 0 - 1
GoalTypes == {"triathlon", "marathon", "general_fitness"}
GoalStatus == {"PLANNING", "ACTIVE", "COMPLETED", "PAUSED", "CANCELLED"}

Min(a, b) == IF a <= b THEN a ELSE b
Max(a, b) == IF a >= b THEN a ELSE b

RECURSIVE Flatten(_)
Flatten(ss) == IF ss = <<>> THEN <<>> ELSE Head(ss) \o Flatten(Tail(ss))

VARIABLES
    goals,      \* Goal table
    plans,      \* TrainingPlan table
    workouts,   \* Workout table
    logs,       \* WorkoutLog table
    today,      \* date.today() as a day number
    last,       \* the most recent request: what it was and what it returned
    reqs        \* requests in flight: the position of each handler

vars == <<goals, plans, workouts, logs, today, last, reqs>>

\* op: the entry point; goal, plan, current_week: what it worked on; returned: its
\* result; created: the number of Workout rows it persisted; failed: the weeks
\* in which building a workout failed; path: the branch taken; raised: an
\* exception left the handler; again: a refresh that directly follows a
\* successful refresh of the same plan in the same current week; workout: the
\* workout a completion was asked for; feedback: the aggregated feedback;
\* week, adapted: a synthesized week before and after the adaptation step;
\* calls: the outcome of each call to the external supplier, in order;
\* malformed: the weeks whose answer was not seven valid items
NoCall == [op |-> "none", goal |-> 0, plan |-> 0, current_week |-> 0, returned |-> FALSE,
           created |-> 0, failed |-> {}, path |-> "none", raised |-> FALSE,
           again |-> FALSE, workout |-> 0,
           feedback |-> [has_feedback |-> FALSE, num_workouts |-> 0,
                         intensity_adjustment |-> "none",
                         recovery_adjustment |-> "none"],
           week |-> << >>, adapted |-> << >>,
           calls |-> << >>, malformed |-> {}]

\* the handlers that may run concurrently
Requests == 1..NumRequests
Idle == [pc |-> "idle", kind |-> "none", goal |-> 0, to_pause |-> {},
         workout |-> 0, plan |-> 0, feedback |-> <<0, 0>>, current_week |-> 0,
         rows |-> << >>]

(***************************************************************************)
(* Queries                                                                 *)
(***************************************************************************)
PlanIds == 1..Len(plans)
WorkoutIds == 1..Len(workouts)
GoalIds == 1..Len(goals)

WeeksOf(ws, plan_id) ==
    {ws[i].week_number : i \in {j \in 1..Len(ws) : ws[j].training_plan_id = plan_id}}

SetMax(S) == CHOOSE x \in S : \A y \in S : y <= x

SetMin(S) == CHOOSE x \in S : \A y \in S : x <= y

\* mutant: func.min in place of func.max
get_min_generated_week(ws, plan_id) ==
    IF WeeksOf(ws, plan_id) = {} THEN 0 ELSE SetMin(WeeksOf(ws, plan_id))

\* _get_max_generated_week: max(Workout.week_number) of the plan, or 0
get_max_generated_week(ws, plan_id) ==
    IF WeeksOf(ws, plan_id) = {} THEN 0 ELSE SetMax(WeeksOf(ws, plan_id))

\* current week of a goal at the time of a request
CurrentWeek(goal, now) == Max(1, ((now - goal.created_at) \div 7) + 1)

\* mutant: only the logs of today count
is_completed_today(wid) ==
    \E i \in 1..Len(logs) : logs[i].workout_id = wid /\ logs[i].completed_date = today

\* Workout.is_completed: a WorkoutLog references the workout
is_completed(wid) == \E i \in 1..Len(logs) : logs[i].workout_id = wid

\* GoalRepository.get_active_goal (one user)
ActiveGoals == {g \in GoalIds : goals[g].status = "ACTIVE"}

(***************************************************************************)
(* Plan duration and week-to-phase lookup                                  *)
(***************************************************************************)
\* total_weeks of a plan: max(8, days_available // 7), 16 without event date
PlanTotalWeeks(goal, now) ==
    IF goal.event_date # Null
    THEN Max(8, (goal.event_date - now) \div 7)
    ELSE 16

\* GoalRepository.create_goal: max(4, min(32, days // 7)), 12 without date
GoalTotalWeeks(event_date, now) ==
    IF event_date # Null
    THEN Max(4, Min(32, (event_date - now) \div 7))
    ELSE 12

get_training_phase(week_num, plan) ==
    IF week_num <= plan.base_weeks THEN "BASE"
    ELSE IF week_num <= plan.base_weeks + plan.build_weeks THEN "BUILD"
    ELSE IF week_num <= plan.base_weeks + plan.build_weeks + plan.peak_weeks
         THEN "PEAK"
    ELSE "TAPER"

(***************************************************************************)
(* AdaptiveTrainingGenerator: plan structure and the weekly synthesizer    *)
(***************************************************************************)
\* _get_plan_structure: the phase split per goal type
get_plan_structure(goal_type, total_weeks) ==
    IF goal_type = "triathlon"
    THEN [base_weeks |-> Max(6, total_weeks \div 2),
          build_weeks |-> Max(4, total_weeks \div 3),
          peak_weeks |-> Max(2, total_weeks \div 8),
          taper_weeks |-> 2]
    ELSE IF goal_type = "marathon"
    THEN [base_weeks |-> Max(8, (total_weeks * 2) \div 3),
          build_weeks |-> Max(6, total_weeks \div 4),
          peak_weeks |-> 2,
          taper_weeks |-> 3]
    ELSE [base_weeks |-> Max(4, total_weeks \div 3),
          build_weeks |-> Max(4, total_weeks \div 3),
          peak_weeks |-> Max(2, total_weeks \div 6),
          taper_weeks |-> 1]

\* one workout descriptor (the dict the synthesizers hand to Workout(...))
Descriptor(day, wtype, name, intensity, duration) ==
    [day_of_week |-> day, workout_type |-> wtype, name |-> <<name>>,
     intensity |-> intensity, duration_minutes |-> duration,
     description |-> ""]

\* _generate_week_workouts: only the triathlon table exists
generate_week_workouts(goal_type, week_num) ==
    IF goal_type = "triathlon"
    THEN << Descriptor(1, "SWIM", "Swim Technique", "EASY", 45),
            Descriptor(2, "BIKE", "Bike Endurance", "MODERATE", 60),
            Descriptor(3, "RUN", "Easy Run", "EASY", 30),
            Descriptor(5, "STRENGTH", "Functional Strength", "MODERATE", 30) >>
    ELSE << >>

(***************************************************************************)
(* FeedbackAggregator: _analyze_recent_feedback                            *)
(***************************************************************************)
LOOKBACK_DAYS == 14
FEEDBACK_LIMIT == 10

\* mutant: the newest logs whatever their date
RecentLogsAnyDate(ls, now) ==
    {i \in 1..Len(ls) : i > Len(ls) - FEEDBACK_LIMIT}

\* the logs of the lookback window, newest first, at most FEEDBACK_LIMIT
RecentLogs(ls, now) ==
    LET inWindow == {i \in 1..Len(ls) : ls[i].completed_date >= now - LOOKBACK_DAYS}
    IN IF Cardinality(inWindow) <= FEEDBACK_LIMIT
       THEN inWindow
       ELSE CHOOSE S \in SUBSET inWindow :
                /\ Cardinality(S) = FEEDBACK_LIMIT
                /\ \A i \in S, j \in inWindow \ S :
                       ls[i].completed_date >= ls[j].completed_date

SumOver(S, f(_)) ==
    LET RECURSIVE Go(_)
        Go(T) == IF T = {} THEN 0
                 ELSE LET x == CHOOSE y \in T : TRUE IN f(x) + Go(T \ {x})
    IN Go(S)

\* avg >= 7 -> decrease, avg <= 3 -> increase, else maintain; the average of
\* n scores with sum s is compared as s against 7*n and 3*n
\* mutant: the thresholds taken as strict
IntensityAdjustmentStrict(sum, n) ==
    IF n = 0 THEN "none"
    ELSE IF sum > 7 * n THEN "decrease"
    ELSE IF sum < 3 * n THEN "increase"
    ELSE "maintain"

IntensityAdjustment(sum, n) ==
    IF n = 0 THEN "none"
    ELSE IF sum >= 7 * n THEN "decrease"
    ELSE IF sum <= 3 * n THEN "increase"
    ELSE "maintain"

RecoveryAdjustment(sum, n) ==
    IF n = 0 THEN "none"
    ELSE IF sum <= 4 * n THEN "more_rest"
    ELSE IF sum >= 8 * n THEN "can_push_harder"
    ELSE "maintain"

analyze_recent_feedback(ls, now) ==
    LET recent == RecentLogs(ls, now)
        exertion == {i \in recent : ls[i].perceived_exertion # 0}
        energy == {i \in recent : ls[i].energy_level # 0}
        Ex(i) == ls[i].perceived_exertion
        En(i) == ls[i].energy_level
    IN IF recent = {}
       THEN [has_feedback |-> FALSE, num_workouts |-> 0,
             intensity_adjustment |-> "none", recovery_adjustment |-> "none"]
       ELSE [has_feedback |-> TRUE, num_workouts |-> Cardinality(recent),
             intensity_adjustment |->
                 IntensityAdjustment(SumOver(exertion, Ex), Cardinality(exertion)),
             recovery_adjustment |->
                 RecoveryAdjustment(SumOver(energy, En), Cardinality(energy))]

(***************************************************************************)
(* AdaptationEngine: _adapt_workouts_based_feedback                        *)
(***************************************************************************)
\* mutant: the decrease branch steps up
DecreaseIntensityInverted(i) ==
    IF i = "EASY" THEN "MODERATE" ELSE IF i = "MODERATE" THEN "HARD" ELSE i

DecreaseIntensity(i) ==
    IF i = "HARD" THEN "MODERATE" ELSE IF i = "MODERATE" THEN "EASY" ELSE i

IncreaseIntensity(i) ==
    IF i = "EASY" THEN "MODERATE" ELSE IF i = "MODERATE" THEN "HARD" ELSE i

\* step 1: the intensity adjustment, duration scaled by int(d * 0.9 / 1.1)
AdaptIntensity(w, feedback) ==
    IF feedback.intensity_adjustment = "decrease"
    THEN [w EXCEPT !.intensity = DecreaseIntensity(w.intensity),
                   !.duration_minutes = (w.duration_minutes * 9) \div 10]
    ELSE IF feedback.intensity_adjustment = "increase"
    THEN [w EXCEPT !.intensity = IncreaseIntensity(w.intensity),
                   !.duration_minutes = (w.duration_minutes * 11) \div 10]
    ELSE w

\* step 2: the recovery adjustment
AdaptRecovery(w, feedback) ==
    IF /\ feedback.recovery_adjustment = "more_rest"
       /\ w.workout_type # "REST"
       /\ w.intensity \in {"HARD", "MODERATE"}
    THEN [w EXCEPT !.intensity = "EASY",
                   !.name = <<"Recovery">> \o w.name,
                   !.description = "Adjusted for additional recovery"]
    ELSE w

adapt_workouts_based_feedback(week, feedback) ==
    IF ~feedback.has_feedback
    THEN week
    ELSE [i \in 1..Len(week) |-> AdaptRecovery(AdaptIntensity(week[i], feedback), feedback)]

(***************************************************************************)
(* RollingWindowScheduler                                                  *)
(***************************************************************************)
\* Workout(training_plan_id=..., week_number=..., day_of_week=..., ...)
WorkoutRow(plan_id, week_num, phase, d) ==
    [training_plan_id |-> plan_id, week_number |-> week_num,
     day_of_week |-> d.day_of_week, name |-> d.name,
     workout_type |-> d.workout_type, intensity |-> d.intensity,
     phase |-> phase, duration_minutes |-> d.duration_minutes,
     description |-> d.description]

\* for week_num in range(start_week, start_week + num_weeks):
\*     if week_num > plan.total_weeks: break
WeekRange(start_week, num_weeks, total_weeks) ==
    LET n == Max(0, Min(num_weeks, total_weeks - start_week + 1))
    IN [i \in 1..n |-> start_week + i - 1]

NoFeedback == [has_feedback |-> FALSE, num_workouts |-> 0,
               intensity_adjustment |-> "none", recovery_adjustment |-> "none"]

\* the rows of one week: synthesize, adapt, build the Workout objects
AdaptiveWeekRows(plan_id, plan, goal_type, week_num, feedback) ==
    LET week == adapt_workouts_based_feedback(
                    generate_week_workouts(goal_type, week_num), feedback)
    IN [i \in 1..Len(week) |->
            WorkoutRow(plan_id, week_num, get_training_phase(week_num, plan), week[i])]

\* _generate_adaptive_workouts (and _generate_rolling_workouts, which is the
\* same loop without the adaptation step): the rows added before db.commit()
generate_adaptive_workouts(plan_id, plan, goal_type, start_week, num_weeks, feedback) ==
    LET weeks == WeekRange(start_week, num_weeks, plan.total_weeks)
    IN Flatten([k \in 1..Len(weeks) |->
                   AdaptiveWeekRows(plan_id, plan, goal_type, weeks[k], feedback)])

\* update_rolling_plan, lines 81-87
WeeksAhead(max_generated_week, current_week) == max_generated_week - current_week
NeedsMoreWeeks(weeks_ahead) == weeks_ahead < ROLLING_WEEKS
\* mutant: always a full window of new weeks
WeeksToGenerateFull(weeks_ahead) == ROLLING_WEEKS
WeeksToGenerate(weeks_ahead) == ROLLING_WEEKS - weeks_ahead
\* mutant: the new weeks start at the last generated week
StartWeekAtMax(max_generated_week) == max_generated_week
StartWeek(max_generated_week) == max_generated_week + 1
\* line 95
NumWeeks(weeks_to_generate, total_weeks, start_week) ==
    Min(weeks_to_generate, total_weeks - start_week + 1)

\* update_rolling_plan: the rows it persists and the value it returns
update_rolling_plan(ws, ls, now, plan_id, current_week) ==
    LET plan == plans[plan_id]
        max_generated_week == get_max_generated_week(ws, plan_id)
        weeks_ahead == WeeksAhead(max_generated_week, current_week)
        start_week == StartWeek(max_generated_week)
    IN IF NeedsMoreWeeks(weeks_ahead)
       THEN [rows |-> generate_adaptive_workouts(
                          plan_id, plan, goals[plan.goal_id].goal_type, start_week,
                          NumWeeks(WeeksToGenerate(weeks_ahead), plan.total_weeks, start_week),
                          analyze_recent_feedback(ls, now)),
             generating |-> TRUE, returned |-> TRUE]
       ELSE [rows |-> << >>, generating |-> FALSE, returned |-> FALSE]

(***************************************************************************)
(* simple_training_generator                                               *)
(***************************************************************************)
\* create_simple_training_plan, lines 36-39 (also Claude's fallback structure
\* and the defaults of plan_data.get in create_training_plan)
SimplePhases(total_weeks) ==
    [base_weeks |-> total_weeks \div 2, build_weeks |-> total_weeks \div 3,
     peak_weeks |-> 2, taper_weeks |-> 1]

\* generate_week_workouts: base intensity of a phase
BaseIntensity(phase) ==
    IF phase = "BASE" THEN "EASY"
    ELSE IF phase = "BUILD" THEN "MODERATE"
    ELSE IF phase = "PEAK" THEN "HARD"
    ELSE "EASY"

\* generate_triathlon_week.  Distances are kept in tenths of a mile (run),
\* miles (bike) and yards (swim); int() truncates.  The long-run duration
\* int(base_run * 1.5 * 10) is one minute short of the exact value where the
\* double product falls just below an integer (weeks 4 and 18; in taper
\* week 10 and every even week from 20 on).
generate_triathlon_week(week, phase, intensity) ==
    LET taper == phase = "TAPER"
        r == Min(20 + 2 * week, 60)
        b == Min(10 + week, 25)
        s == Min(500 + 25 * week, 1500)
        run == IF taper THEN (r * 63) \div 100 ELSE (r * 9) \div 10
        swim == IF taper THEN (s * 7) \div 250 ELSE s \div 25
        bike == IF taper THEN (b * 21) \div 10 ELSE b * 3
        easy == IF taper THEN (s * 42) \div 2500 ELSE (s * 6) \div 250
        longRun == IF taper
                   THEN ((r * 105) \div 100) - (IF week = 10 \/ week >= 20 THEN 1 ELSE 0)
                   ELSE ((r * 15) \div 10) - (IF week \in {4, 18} THEN 1 ELSE 0)
        longBike == IF taper THEN (b * 252) \div 100 ELSE (b * 36) \div 10
    IN << Descriptor(0, "REST", "Rest Day", "EASY", 0),
          Descriptor(1, "RUN", "Run", intensity, run),
          Descriptor(2, "SWIM", "Swim", intensity, swim),
          Descriptor(3, "BIKE", "Bike", intensity, bike),
          Descriptor(4, "SWIM", "Easy Swim", "EASY", easy),
          IF week % 2 = 0
          THEN Descriptor(5, "RUN", "Long Run", "EASY", longRun)
          ELSE Descriptor(5, "BIKE", "Long Bike", "EASY", longBike),
          Descriptor(6, "STRENGTH", "Strength Training", "MODERATE", 45) >>

\* generate_running_week (base_run in tenths of a mile; int(base_run * 10) is
\* one short in week 9, where the double is 5.699999...)
generate_running_week(week, phase, intensity) ==
    LET r == Min(30 + 3 * week, 80)
    IN << Descriptor(0, "REST", "Rest Day", "EASY", 0),
          Descriptor(1, "RUN", "Easy Run", "EASY", r - (IF week = 9 THEN 1 ELSE 0)),
          Descriptor(2, "STRENGTH", "Strength Training", "MODERATE", 45),
          Descriptor(3, "RUN", "Tempo Run", intensity, (r * 64) \div 100),
          Descriptor(4, "REST", "Rest Day", "EASY", 0),
          Descriptor(5, "RUN", "Long Run", "EASY", (r * 165) \div 100),
          Descriptor(6, "CROSS_TRAINING", "Cross Training", "EASY", 30) >>

generate_general_week(week, phase, intensity) ==
    << Descriptor(0, "STRENGTH", "Strength Training", intensity, 45),
       Descriptor(1, "RUN", "Cardio Run", intensity, 30),
       Descriptor(2, "STRENGTH", "Upper Body Strength", intensity, 45),
       Descriptor(3, "REST", "Rest Day", "EASY", 0),
       Descriptor(4, "STRENGTH", "Lower Body Strength", intensity, 45),
       Descriptor(5, "RUN", "Cardio Workout", intensity, 35),
       Descriptor(6, "REST", "Rest Day", "EASY", 0) >>

\* simple_training_generator.generate_week_workouts
simple_generate_week_workouts(goal_type, week, phase) ==
    IF goal_type \in {"triathlon", "ironman"}
    THEN generate_triathlon_week(week, phase, BaseIntensity(phase))
    ELSE IF goal_type \in {"marathon", "half_marathon", "10k", "5k"}
    THEN generate_running_week(week, phase, BaseIntensity(phase))
    ELSE generate_general_week(week, phase, BaseIntensity(phase))

NewPlan(g, total_weeks, phases) ==
    [goal_id |-> g, total_weeks |-> total_weeks,
     base_weeks |-> phases.base_weeks, build_weeks |-> phases.build_weeks,
     peak_weeks |-> phases.peak_weeks, taper_weeks |-> phases.taper_weeks]

\* create_simple_training_plan: the plan row and the rows of all its weeks
SimplePlanRows(plan_id, plan, goal_type) ==
    Flatten([week \in 1..plan.total_weeks |->
        LET phase == get_training_phase(week, plan)
            ds == simple_generate_week_workouts(goal_type, week, phase)
        IN [i \in 1..Len(ds) |-> WorkoutRow(plan_id, week, phase, ds[i])]])

(***************************************************************************)
(* ClaudeTrainingGenerator                                                 *)
(***************************************************************************)
\* What the external supplier answers during one create_training_plan call:
\* api_key: ANTHROPIC_API_KEY is configured; plan: the answer to the plan
\* request; the answer to the request for week w is odd if w = odd_week and
\* default otherwise; commit_fails: the final db.commit() raises.
\* A weekly answer is a list of items: "ok" a valid descriptor, "null" a rest
\* day, "bad" a dict whose type is no WorkoutType, "text" not a dict; the
\* answer "fail" is a timeout, an API error or a reply without JSON array.
WeekAnswer(shape) ==
    IF shape = "full7" THEN <<"ok", "ok", "ok", "ok", "ok", "ok", "ok">>
    ELSE IF shape = "rest_null" THEN <<"null", "ok", "ok", "ok", "ok", "ok", "null">>
    ELSE IF shape = "short" THEN <<"ok", "ok", "ok", "ok", "ok">>
    ELSE IF shape = "long" THEN <<"ok", "ok", "ok", "ok", "ok", "ok", "ok", "ok">>
    ELSE IF shape = "bad_item" THEN <<"ok", "ok", "ok", "bad", "ok", "ok", "ok">>
    ELSE <<"ok", "text", "ok", "ok", "ok", "ok", "ok">>

Script(api_key, plan, default, odd_week, odd, commit_fails) ==
    [api_key |-> api_key, plan |-> plan, default |-> default,
     odd_week |-> odd_week, odd |-> odd, commit_fails |-> commit_fails]

ClaudeScripts ==
    { Script(FALSE, "fail", "fail", 0, "fail", FALSE),
      Script(TRUE, "fail", "fail", 0, "fail", FALSE),
      Script(TRUE, "valid", "full7", 0, "full7", FALSE),
      Script(TRUE, "valid", "rest_null", 0, "full7", FALSE),
      Script(TRUE, "valid", "full7", 2, "bad_item", FALSE),
      Script(TRUE, "valid", "full7", 2, "text_item", FALSE),
      Script(TRUE, "valid", "full7", 1, "short", FALSE),
      Script(TRUE, "valid", "full7", 2, "long", FALSE),
      Script(TRUE, "offsum", "full7", 3, "fail", FALSE),
      Script(TRUE, "valid", "full7", 0, "full7", TRUE) }

\* the supplier answers under which the rolling window is followed
RollingScripts ==
    { Script(FALSE, "fail", "fail", 0, "fail", FALSE),
      Script(TRUE, "valid", "full7", 0, "full7", FALSE),
      Script(TRUE, "valid", "rest_null", 0, "full7", FALSE) }

ShapeOfWeek(script, week) ==
    IF week = script.odd_week THEN script.odd ELSE script.default

\* _fallback_plan_structure
fallback_plan_structure(total_weeks) == SimplePhases(total_weeks)

\* _generate_plan_with_claude: the phase split of plan_data
generate_plan_with_claude(script, total_weeks) ==
    IF script.plan = "fail" THEN fallback_plan_structure(total_weeks)
    ELSE IF script.plan = "valid"
    THEN [base_weeks |-> total_weeks - 5, build_weeks |-> 3,
          peak_weeks |-> 1, taper_weeks |-> 1]
    ELSE [base_weeks |-> 4, build_weeks |-> 4, peak_weeks |-> 2, taper_weeks |-> 2]

\* _fallback_week_workouts
fallback_week_workouts(week_num, phase) ==
    LET intensity == IF phase = "BASE" THEN "EASY" ELSE "MODERATE"
    IN << Descriptor(0, "REST", "Rest Day", "EASY", 0),
          Descriptor(1, "RUN", "Run", intensity, 30 + week_num * 2),
          Descriptor(2, "STRENGTH", "Strength Training", "MODERATE", 45),
          Descriptor(3, "BIKE", "Bike", intensity, 45 + week_num * 3),
          Descriptor(4, "CROSS_TRAINING", "Cross Training", "EASY", 30),
          Descriptor(5, "RUN", "Long Workout", "MODERATE", 60 + week_num * 5),
          Descriptor(6, "REST", "Rest Day", "EASY", 0) >>

\* a valid descriptor of the supplier, placed on day_idx by enumerate()
ClaudeDescriptor(day_idx) == Descriptor(day_idx, "RUN", "Workout", "EASY", 30)

\* _generate_week_workouts_with_claude: the list it returns; an item is a
\* descriptor, or one of "null", "bad", "text"
generate_week_workouts_with_claude(script, week_num, phase) ==
    IF ShapeOfWeek(script, week_num) = "fail"
    THEN [i \in 1..7 |-> [kind |-> "ok", d |-> fallback_week_workouts(week_num, phase)[i]]]
    ELSE LET answer == WeekAnswer(ShapeOfWeek(script, week_num))
         IN [i \in 1..Len(answer) |-> [kind |-> answer[i], d |-> ClaudeDescriptor(i - 1)]]

\* _generate_workouts_with_claude, lines 212-239: the rows of one week; the
\* day of a row is its index in the list, null items are skipped, and so is
\* ("continue") every item that is not a dict or whose Workout(...) raises
ClaudeWeekRows(plan_id, week_num, phase, items) ==
    LET kept == SelectSeq([i \in 1..Len(items) |-> [idx |-> i - 1, item |-> items[i]]],
                          LAMBDA e : e.item.kind = "ok")
    IN [k \in 1..Len(kept) |->
           WorkoutRow(plan_id, week_num, phase,
                      [kept[k].item.d EXCEPT !.day_of_week = kept[k].idx])]

ClaudePlanRows(plan_id, plan, script) ==
    Flatten([week \in 1..plan.total_weeks |->
        LET phase == get_training_phase(week, plan)
        IN ClaudeWeekRows(plan_id, week, phase,
                          generate_week_workouts_with_claude(script, week, phase))])

\* the weeks in which an item was dropped because it could not be built
ClaudeFailedWeeks(plan, script) ==
    {week \in 1..plan.total_weeks :
        /\ ShapeOfWeek(script, week) # "fail"
        /\ \E i \in 1..Len(WeekAnswer(ShapeOfWeek(script, week))) :
               WeekAnswer(ShapeOfWeek(script, week))[i] \in {"bad", "text"}}

\* the weeks answered with a list that is not seven valid items
ClaudeMalformedWeeks(plan, script) ==
    {week \in 1..plan.total_weeks :
        /\ ShapeOfWeek(script, week) # "fail"
        /\ LET answer == WeekAnswer(ShapeOfWeek(script, week))
           IN \/ Len(answer) # 7
              \/ \E i \in 1..Len(answer) : answer[i] \in {"bad", "text"}}

\* client.messages.create: one call for the plan structure, then one call
\* per week; "fail" is a call that raised or whose text held no JSON
claude_calls(script, total_weeks) ==
    <<IF script.plan = "fail" THEN "fail" ELSE "ok">>
    \o [week \in 1..total_weeks |->
           IF ShapeOfWeek(script, week) = "fail" THEN "fail" ELSE "ok"]

(***************************************************************************)
(* Initial state: an empty database                                        *)
(***************************************************************************)
Init ==
    /\ goals = << >>
    /\ plans = << >>
    /\ workouts = << >>
    /\ logs = << >>
    /\ today = 0
    /\ last = NoCall
    /\ reqs = [r \in Requests |-> Idle]

\* GoalRepository.create_goal: the Goal row it inserts
NewGoal(goal_type, event_date, now) ==
    [status |-> "PLANNING", goal_type |-> goal_type, event_date |-> event_date,
     total_weeks |-> GoalTotalWeeks(event_date, now), created_at |-> now,
     base_weeks |-> Null, build_weeks |-> Null, peak_weeks |-> Null,
     taper_weeks |-> Null]

PlansOfGoal(g) == {p \in PlanIds : plans[p].goal_id = g}

(***************************************************************************)
(* POST /goals/  (create_goal): Claude first, then the simple generator    *)
(***************************************************************************)
\* ClaudeTrainingGenerator.create_training_plan: the plan rows and workout
\* rows that stay persisted, and whether it raised
create_claude_training_plan(g, goal, script, first_plan_id) ==
    LET total_weeks == PlanTotalWeeks(goal, today)
        plan == NewPlan(g, total_weeks, generate_plan_with_claude(script, total_weeks))
    IN IF ~script.api_key
       THEN [plans |-> << >>, rows |-> << >>, failed |-> {}, raised |-> TRUE,
             calls |-> << >>, malformed |-> {}]
       ELSE IF script.commit_fails
       THEN \* db.rollback() drops the pending workouts, the plan was committed
            [plans |-> <<plan>>, rows |-> << >>,
             failed |-> ClaudeFailedWeeks(plan, script), raised |-> TRUE,
             calls |-> claude_calls(script, total_weeks),
             malformed |-> ClaudeMalformedWeeks(plan, script)]
       ELSE [plans |-> <<plan>>, rows |-> ClaudePlanRows(first_plan_id, plan, script),
             failed |-> ClaudeFailedWeeks(plan, script), raised |-> FALSE,
             calls |-> claude_calls(script, total_weeks),
             malformed |-> ClaudeMalformedWeeks(plan, script)]

\* create_simple_training_plan; mutant first: it reports success although it failed
create_simple_training_plan_swallowing(g, goal, simple_fails, plan_id) ==
    LET total_weeks == PlanTotalWeeks(goal, today)
        plan == NewPlan(g, total_weeks, SimplePhases(total_weeks))
    IN [plans |-> <<plan>>,
        rows |-> IF simple_fails THEN << >> ELSE SimplePlanRows(plan_id, plan, goal.goal_type),
        raised |-> FALSE]
create_simple_training_plan(g, goal, simple_fails, plan_id) ==
    LET total_weeks == PlanTotalWeeks(goal, today)
        plan == NewPlan(g, total_weeks, SimplePhases(total_weeks))
    IN IF simple_fails
       THEN [plans |-> <<plan>>, rows |-> << >>, raised |-> TRUE]
       ELSE [plans |-> <<plan>>, rows |-> SimplePlanRows(plan_id, plan, goal.goal_type),
             raised |-> FALSE]

CreateGoal(goal_type, event_date, script, simple_fails) ==
    /\ ActiveGoals = {}
    /\ LET g == Len(goals) + 1
           goal == NewGoal(goal_type, event_date, today)
           c == create_claude_training_plan(g, goal, script, Len(plans) + 1)
           s == create_simple_training_plan(g, goal, simple_fails,
                                            Len(plans) + Len(c.plans) + 1)
       IN IF ~c.raised
          THEN /\ ~simple_fails
               /\ goals' = Append(goals, [goal EXCEPT !.status = "ACTIVE"])
               /\ plans' = plans \o c.plans
               /\ workouts' = workouts \o c.rows
               /\ last' = [NoCall EXCEPT !.op = "create_goal", !.goal = g, !.plan = Len(plans'),
                                         !.current_week = 1, !.created = Len(c.rows),
                                         !.failed = c.failed, !.path = "claude",
                                         !.calls = c.calls,
                                         !.malformed = c.malformed]
          ELSE /\ goals' = Append(goals, [goal EXCEPT !.status =
                                 IF s.raised THEN "PLANNING" ELSE "ACTIVE"])
               /\ plans' = plans \o c.plans \o s.plans
               /\ workouts' = workouts \o s.rows
               /\ last' = [NoCall EXCEPT !.op = "create_goal", !.goal = g, !.plan = Len(plans'),
                                         !.current_week = 1, !.created = Len(s.rows),
                                         !.calls = c.calls,
                                         !.path = IF s.raised THEN "failed" ELSE "simple"]
    /\ UNCHANGED <<logs, today, reqs>>

(***************************************************************************)
(* POST /goals/triathlon                                                   *)
(***************************************************************************)
CreateTriathlonGoal(days) ==
    /\ ActiveGoals = {}
    /\ goals' = Append(goals, NewGoal("triathlon", today + days, today))
    /\ last' = [NoCall EXCEPT !.op = "create_triathlon_goal", !.goal = Len(goals) + 1]
    /\ UNCHANGED <<plans, workouts, logs, today, reqs>>

(***************************************************************************)
(* create_adaptive_training_plan(db, goal, user)                           *)
(***************************************************************************)
CreateAdaptivePlan(g) ==
    /\ g \in GoalIds
    /\ PlansOfGoal(g) = {}
    /\ LET goal == goals[g]
           total_weeks == PlanTotalWeeks(goal, today)
           plan_data == get_plan_structure(goal.goal_type, total_weeks)
           plan == [goal_id |-> g, total_weeks |-> total_weeks,
                    base_weeks |-> plan_data.base_weeks,
                    build_weeks |-> plan_data.build_weeks,
                    peak_weeks |-> plan_data.peak_weeks,
                    taper_weeks |-> plan_data.taper_weeks]
           plan_id == Len(plans) + 1
           rows == generate_adaptive_workouts(plan_id, plan, goal.goal_type,
                                              1, ROLLING_WEEKS, NoFeedback)
       IN /\ goals' = [goals EXCEPT ![g].base_weeks = plan_data.base_weeks,
                                    ![g].build_weeks = plan_data.build_weeks,
                                    ![g].peak_weeks = plan_data.peak_weeks,
                                    ![g].taper_weeks = plan_data.taper_weeks]
          /\ plans' = Append(plans, plan)
          /\ workouts' = workouts \o rows
          /\ last' = [NoCall EXCEPT !.op = "create_adaptive", !.goal = g, !.plan = plan_id,
                                    !.current_week = CurrentWeek(goal, today),
                                    !.created = Len(rows), !.path = "adaptive"]
    /\ UNCHANGED <<logs, today, reqs>>

(***************************************************************************)
(* POST /training/plans/{plan_id}/update-rolling                           *)
(***************************************************************************)
UpdateRolling(p, fault) ==
    /\ p \in PlanIds
    /\ LET current_week == CurrentWeek(goals[plans[p].goal_id], today)
           r == update_rolling_plan(workouts, logs, today, p, current_week)
           again == /\ last.op = "refresh"
                    /\ last.plan = p
                    /\ last.current_week = current_week
                    /\ ~last.raised
       IN IF r.generating /\ fault
          THEN \* the exception leaves the handler, the session is closed
               /\ workouts' = workouts
               /\ last' = [NoCall EXCEPT !.op = "refresh", !.plan = p,
                                         !.current_week = current_week,
                                         !.raised = TRUE]
          ELSE /\ ~fault
               /\ workouts' = workouts \o r.rows
               /\ last' = [NoCall EXCEPT !.op = "refresh", !.plan = p,
                                         !.current_week = current_week,
                                         !.returned = r.returned,
                                         !.created = Len(r.rows),
                                         !.again = again]
    /\ UNCHANGED <<goals, plans, logs, today, reqs>>

(***************************************************************************)
(* PUT /training/workouts/{workout_id}/complete                            *)
(***************************************************************************)
\* mutant: the log is committed together with the new weeks, a failing
\* refresh fails the completion
CompleteWorkoutPropagating(wid, fb, fault) ==
    /\ wid \in WorkoutIds
    /\ wid <= MaxWorkoutId
    /\ LET p == workouts[wid].training_plan_id
           current_week == CurrentWeek(goals[plans[p].goal_id], today)
       IN IF is_completed(wid)
          THEN /\ ~fault
               /\ UNCHANGED <<workouts, logs>>
               /\ last' = [NoCall EXCEPT !.op = "complete", !.plan = p, !.workout = wid,
                                         !.path = "already_completed"]
          ELSE LET log == [workout_id |-> wid, goal_id |-> plans[p].goal_id,
                           completed_date |-> today,
                           perceived_exertion |-> fb[1], energy_level |-> fb[2]]
                   logs2 == Append(logs, log)
                   r == update_rolling_plan(workouts, logs2, today, p, current_week)
               IN /\ logs' = IF r.generating /\ fault THEN logs ELSE logs2
                  /\ IF r.generating /\ fault
                     THEN /\ workouts' = workouts
                          /\ last' = [NoCall EXCEPT !.op = "complete", !.plan = p, !.workout = wid,
                                         !.current_week = current_week,
                                         !.path = "refresh_failed",
                                         !.raised = TRUE]
                     ELSE /\ ~fault
                          /\ workouts' = workouts \o r.rows
                          /\ last' = [NoCall EXCEPT !.op = "complete", !.plan = p, !.workout = wid,
                                         !.current_week = current_week,
                                         !.returned = r.returned,
                                         !.created = Len(r.rows),
                                         !.path = "completed"]
    /\ UNCHANGED <<goals, plans, today, reqs>>

CompleteWorkout(wid, fb, fault) ==
    /\ wid \in WorkoutIds
    /\ wid <= MaxWorkoutId
    /\ LET p == workouts[wid].training_plan_id
           current_week == CurrentWeek(goals[plans[p].goal_id], today)
       IN IF is_completed(wid)
          THEN /\ ~fault
               /\ UNCHANGED <<workouts, logs>>
               /\ last' = [NoCall EXCEPT !.op = "complete", !.plan = p, !.workout = wid,
                                         !.path = "already_completed"]
          ELSE LET log == [workout_id |-> wid, goal_id |-> plans[p].goal_id,
                           completed_date |-> today,
                           perceived_exertion |-> fb[1], energy_level |-> fb[2]]
                   logs2 == Append(logs, log)
                   r == update_rolling_plan(workouts, logs2, today, p, current_week)
               IN /\ logs' = logs2
                  /\ IF r.generating /\ fault
                     THEN \* except Exception: the refresh failure is printed
                          /\ workouts' = workouts
                          /\ last' = [NoCall EXCEPT !.op = "complete", !.plan = p, !.workout = wid,
                                         !.current_week = current_week,
                                         !.path = "refresh_failed"]
                     ELSE /\ ~fault
                          /\ workouts' = workouts \o r.rows
                          /\ last' = [NoCall EXCEPT !.op = "complete", !.plan = p, !.workout = wid,
                                         !.current_week = current_week,
                                         !.returned = r.returned,
                                         !.created = Len(r.rows),
                                         !.path = "completed"]
    /\ UNCHANGED <<goals, plans, today, reqs>>

(***************************************************************************)
(* Goal lifecycle endpoints                                                *)
(***************************************************************************)
\* GoalRepository.activate_goal: the UPDATE that pauses the other active goals
PauseOthers(gs, g) ==
    [i \in 1..Len(gs) |->
        IF i # g /\ gs[i].status = "ACTIVE" THEN [gs[i] EXCEPT !.status = "PAUSED"]
        ELSE gs[i]]

\* POST /goals/{goal_id}/activate
ActivateGoal(g) ==
    /\ g \in GoalIds
    /\ goals' = [PauseOthers(goals, g) EXCEPT ![g].status = "ACTIVE"]
    /\ last' = [NoCall EXCEPT !.op = "activate", !.goal = g]
    /\ UNCHANGED <<plans, workouts, logs, today, reqs>>

\* PUT /goals/{goal_id}/pause
PauseGoal(g) ==
    /\ g \in GoalIds
    /\ goals' = [goals EXCEPT ![g].status = "PAUSED"]
    /\ last' = [NoCall EXCEPT !.op = "pause", !.goal = g]
    /\ UNCHANGED <<plans, workouts, logs, today, reqs>>

\* PUT /goals/{goal_id}/cancel
CancelGoal(g) ==
    /\ g \in GoalIds
    /\ goals' = [goals EXCEPT ![g].status = "CANCELLED"]
    /\ last' = [NoCall EXCEPT !.op = "cancel", !.goal = g]
    /\ UNCHANGED <<plans, workouts, logs, today, reqs>>

\* PUT /goals/{goal_id}/archive: only completed goals, marked cancelled
ArchiveGoal(g) ==
    /\ g \in GoalIds
    /\ goals[g].status = "COMPLETED"
    /\ goals' = [goals EXCEPT ![g].status = "CANCELLED"]
    /\ last' = [NoCall EXCEPT !.op = "archive", !.goal = g]
    /\ UNCHANGED <<plans, workouts, logs, today, reqs>>

\* GoalRepository.complete_goal
CompleteGoal(g) ==
    /\ g \in GoalIds
    /\ goals' = [goals EXCEPT ![g].status = "COMPLETED"]
    /\ last' = [NoCall EXCEPT !.op = "complete_goal", !.goal = g]
    /\ UNCHANGED <<plans, workouts, logs, today, reqs>>

\* BaseRepository.update: every field the GoalUpdate carries is written to
\* the row; of these the model keeps status
repository_update(goal, status) ==
    IF status = "unset" THEN goal ELSE [goal EXCEPT !.status = status]

\* PUT /goals/{goal_id}
UpdateGoal(g, status) ==
    /\ g \in GoalIds
    /\ goals' = [goals EXCEPT ![g] = repository_update(goals[g], status)]
    /\ last' = [NoCall EXCEPT !.op = "update_goal", !.goal = g]
    /\ UNCHANGED <<plans, workouts, logs, today, reqs>>

(***************************************************************************)
(* The wall clock                                                          *)
(***************************************************************************)
Tick(d) ==
    /\ today + d <= MaxDay
    /\ today' = today + d
    /\ last' = [NoCall EXCEPT !.op = "tick"]
    /\ UNCHANGED <<goals, plans, workouts, logs, reqs>>

\* the rolling specification follows the plan of one goal
NextRolling ==
    \/ \E days \in EventDays : goals = << >> /\ CreateTriathlonGoal(days)
    \/ \E gt \in GoalTypes, ev \in {Null} \cup {today + d : d \in EventDays},
          script \in RollingScripts, simple_fails \in BOOLEAN :
           goals = << >> /\ CreateGoal(gt, ev, script, simple_fails)
    \/ \E g \in GoalIds : CreateAdaptivePlan(g)
    \/ \E p \in PlanIds, fault \in BOOLEAN : UpdateRolling(p, fault)
    \/ \E wid \in WorkoutIds, fb \in FeedbackInputs, fault \in BOOLEAN :
           CompleteWorkout(wid, fb, fault)
    \/ \E d \in TickSteps : Tick(d)

SpecRolling == Init /\ [][NextRolling]_vars

(***************************************************************************)
(* Plan creation under every answer of the supplier                        *)
(***************************************************************************)
NextCreate ==
    \/ \E days \in EventDays : goals = << >> /\ CreateTriathlonGoal(days)
    \/ \E gt \in GoalTypes, ev \in {Null} \cup {today + d : d \in EventDays},
          script \in ClaudeScripts, simple_fails \in BOOLEAN :
           goals = << >> /\ CreateGoal(gt, ev, script, simple_fails)
    \/ \E g \in GoalIds : CreateAdaptivePlan(g)
    \/ \E d \in TickSteps : goals = << >> /\ Tick(d)

SpecCreate == Init /\ [][NextCreate]_vars

(***************************************************************************)
(* The goal lifecycle of one athlete, requests one after the other         *)
(***************************************************************************)
\* the supplier answers under which the lifecycle is followed
GoalScripts ==
    { Script(FALSE, "fail", "fail", 0, "fail", FALSE) }

NextGoals ==
    \/ \E script \in GoalScripts, simple_fails \in BOOLEAN :
           Len(goals) < MaxGoals /\ CreateGoal("marathon", today + 30, script, simple_fails)
    \/ \E days \in {30} : Len(goals) < MaxGoals /\ CreateTriathlonGoal(days)
    \/ \E g \in GoalIds : ActivateGoal(g)
    \/ \E g \in GoalIds : PauseGoal(g)
    \/ \E g \in GoalIds : CancelGoal(g)
    \/ \E g \in GoalIds : ArchiveGoal(g)
    \/ \E g \in GoalIds : CompleteGoal(g)
    \/ \E g \in GoalIds, status \in GoalStatus \cup {"unset"} : UpdateGoal(g, status)

SpecGoals == Init /\ [][NextGoals]_vars

(***************************************************************************)
(* Two requests of one athlete served at the same time.  Each handler runs *)
(* in its own session; a step is what one session does between two        *)
(* commits or reads of the shared tables.                                  *)
(***************************************************************************)
\* create_goal, step 1: get_active_goal; an active goal ends the request
\* with status 400
BeginCreateGoal(r) ==
    /\ reqs[r].pc = "idle"
    /\ Len(goals) < MaxGoals
    /\ reqs' = [reqs EXCEPT ![r] = [Idle EXCEPT !.kind = "create_goal",
                    !.pc = IF ActiveGoals = {} THEN "insert" ELSE "done"]]
    /\ UNCHANGED <<goals, plans, workouts, logs, today, last>>

\* create_goal, step 2: GoalRepository.create_goal commits the PLANNING row
InsertGoal(r) ==
    /\ reqs[r].pc = "insert"
    /\ goals' = Append(goals, NewGoal("marathon", today + 30, today))
    /\ reqs' = [reqs EXCEPT ![r].pc = "generate", ![r].goal = Len(goals) + 1]
    /\ UNCHANGED <<plans, workouts, logs, today, last>>

\* create_goal, step 3: plan generation, then the commit of status ACTIVE
GeneratePlan(r, simple_fails) ==
    /\ reqs[r].pc = "generate"
    /\ LET g == reqs[r].goal
           s == create_simple_training_plan(g, goals[g], simple_fails, Len(plans) + 1)
       IN /\ goals' = [goals EXCEPT ![g].status =
                          IF s.raised THEN goals[g].status ELSE "ACTIVE"]
          /\ plans' = plans \o s.plans
          /\ workouts' = workouts \o s.rows
          /\ last' = [NoCall EXCEPT !.op = "create_goal", !.goal = g,
                         !.plan = Len(plans'), !.current_week = 1,
                         !.created = Len(s.rows),
                         !.path = IF s.raised THEN "failed" ELSE "simple"]
    /\ reqs' = [reqs EXCEPT ![r].pc = "done"]
    /\ UNCHANGED <<logs, today>>

\* activate_goal, step 1: the UPDATE selects the other goals that are ACTIVE
BeginActivate(r, g) ==
    /\ reqs[r].pc = "idle"
    /\ g \in GoalIds
    /\ reqs' = [reqs EXCEPT ![r] = [Idle EXCEPT !.kind = "activate", !.pc = "commit",
                    !.goal = g,
                    !.to_pause = {i \in GoalIds : i # g /\ goals[i].status = "ACTIVE"}]]
    /\ UNCHANGED <<goals, plans, workouts, logs, today, last>>

\* activate_goal, step 2: the commit pauses the selected rows and activates
\* the target
CommitActivate(r) ==
    /\ reqs[r].pc = "commit"
    /\ goals' = [i \in 1..Len(goals) |->
                    IF i = reqs[r].goal THEN [goals[i] EXCEPT !.status = "ACTIVE"]
                    ELSE IF i \in reqs[r].to_pause
                         THEN [goals[i] EXCEPT !.status = "PAUSED"]
                         ELSE goals[i]]
    /\ last' = [NoCall EXCEPT !.op = "activate", !.goal = reqs[r].goal]
    /\ reqs' = [reqs EXCEPT ![r].pc = "done"]
    /\ UNCHANGED <<plans, workouts, logs, today>>

NextRace ==
    \/ \E days \in {30} : Len(goals) < MaxGoals /\ CreateTriathlonGoal(days)
    \/ \E r \in Requests : BeginCreateGoal(r)
    \/ \E r \in Requests : InsertGoal(r)
    \/ \E r \in Requests, simple_fails \in BOOLEAN : GeneratePlan(r, simple_fails)
    \/ \E r \in Requests, g \in GoalIds : BeginActivate(r, g)
    \/ \E r \in Requests : CommitActivate(r)

SpecRace == Init /\ [][NextRace]_vars

(***************************************************************************)
(* Properties                                                              *)
(***************************************************************************)
\* the rows of one week of a plan
SlotRows(p, w) ==
    {i \in WorkoutIds : workouts[i].training_plan_id = p /\ workouts[i].week_number = w}

\* highest week number persisted for a plan, read directly from the table
HighestWeek(ws, p) ==
    LET W == {ws[i].week_number : i \in {j \in 1..Len(ws) : ws[j].training_plan_id = p}}
    IN IF W = {} THEN 0 ELSE CHOOSE x \in W : \A y \in W : y <= x

IsPrefix(s, t) == Len(s) <= Len(t) /\ SubSeq(t, 1, Len(s)) = s

\* the request that just finished ran the rolling scheduler to its end
RanScheduler ==
    \/ last.op = "create_adaptive"
    \/ last.op = "refresh" /\ ~last.raised
    \/ last.op = "complete" /\ last.path = "completed"

\* C1: after every trigger that runs the rolling scheduler (plan creation,
\* workout completion, manual refresh) max_generated_week - current_week is at
\* least min(ROLLING_WEEKS, total_weeks - current_week).
C1_RollingInvariant ==
    RanScheduler =>
        HighestWeek(workouts, last.plan) - last.current_week
            >= Min(ROLLING_WEEKS, plans[last.plan].total_weeks - last.current_week)

\* C2: a rolling refresh only appends workouts whose week_number is greater
\* than every week already persisted for the plan and leaves every existing
\* workout as it is; no (plan, week, day) ever has two workouts.
NoDuplicateSlots ==
    \A i, j \in WorkoutIds :
        (/\ workouts[i].training_plan_id = workouts[j].training_plan_id
         /\ workouts[i].week_number = workouts[j].week_number
         /\ workouts[i].day_of_week = workouts[j].day_of_week) => i = j

RefreshAppendsLaterWeeks ==
    last'.op \in {"refresh", "complete"} =>
        /\ IsPrefix(workouts, workouts')
        /\ \A i \in (Len(workouts) + 1)..Len(workouts') :
               workouts'[i].week_number
                   > HighestWeek(workouts, workouts'[i].training_plan_id)

C2_NeverRegenerates == [][RefreshAppendsLaterWeeks]_vars /\ []NoDuplicateSlots

\* a completion whose refresh persisted an adapted week next to earlier weeks
C2_Witness ==
    /\ last.op = "complete"
    /\ last.created > 0
    /\ \E i, j \in WorkoutIds :
          /\ workouts[i].training_plan_id = last.plan
          /\ workouts[j].training_plan_id = last.plan
          /\ workouts[i].day_of_week = workouts[j].day_of_week
          /\ workouts[i].week_number < workouts[j].week_number
          /\ workouts[j].duration_minutes < workouts[i].duration_minutes
          /\ workouts[j].intensity # workouts[i].intensity

\* C3: a refresh that directly follows a successful refresh of the same plan
\* in the same current week, with no completion in between, persists nothing.
C3_RefreshIdempotent ==
    [][(/\ last.op = "refresh" /\ ~last.raised
        /\ last'.op = "refresh"
        /\ last'.plan = last.plan
        /\ last'.current_week = last.current_week) => workouts' = workouts]_vars

\* the second of two refreshes, on a plan generated up to total_weeks
C3_Witness ==
    /\ last.op = "refresh"
    /\ last.again
    /\ ~last.raised
    /\ HighestWeek(workouts, last.plan) = plans[last.plan].total_weeks

\* the second of two refreshes, on a plan that is still being generated
C3_WitnessOpen ==
    /\ last.op = "refresh"
    /\ last.again
    /\ HighestWeek(workouts, last.plan) \in 1..(plans[last.plan].total_weeks - 1)

\* C4: update_rolling_plan returns True exactly when the call persisted at
\* least one new workout.
C4_ReturnsWhetherGenerated ==
    (last.op = "refresh" /\ ~last.raised) => (last.returned <=> last.created > 0)

\* C5: once max_generated_week equals total_weeks a completion or refresh
\* leaves the Workout table as it is, and no workout lies beyond total_weeks.
TerminalIsNoOp ==
    (/\ last'.op \in {"refresh", "complete"}
     /\ HighestWeek(workouts, last'.plan) = plans[last'.plan].total_weeks)
        => workouts' = workouts

NoWeekBeyondTotal ==
    \A i \in WorkoutIds :
        workouts[i].week_number <= plans[workouts[i].training_plan_id].total_weeks

C5_TerminalNoOp == [][TerminalIsNoOp]_vars /\ []NoWeekBeyondTotal

\* a trigger that found the lookahead short on a fully generated plan
C5_Witness ==
    /\ last.op \in {"refresh", "complete"}
    /\ last.returned
    /\ last.created = 0
    /\ HighestWeek(workouts, last.plan) = plans[last.plan].total_weeks

\* C6: every week that has a workout has exactly 7, on days 0..6.
C6_SevenWorkoutsPerWeek ==
    \A p \in PlanIds : \A w \in WeeksOf(workouts, p) :
        /\ Cardinality(SlotRows(p, w)) = 7
        /\ {workouts[i].day_of_week : i \in SlotRows(p, w)} = 0..6

(***************************************************************************)
(* C7: generation of one week is atomic under failure: when an item of a   *)
(* week cannot be turned into a workout, no workout of that week is        *)
(* persisted.                                                              *)
(***************************************************************************)
C7_WeekAtomic ==
    (last.op = "create_goal" /\ last.path = "claude") =>
        \A w \in last.failed : SlotRows(last.plan, w) = {}

(***************************************************************************)
(* C8: for every persisted plan the four phase lengths are non-negative    *)
(* and add up to the plan's total_weeks.                                   *)
(***************************************************************************)
C8_PhasesSumToTotal ==
    \A p \in PlanIds :
        /\ plans[p].base_weeks >= 0 /\ plans[p].build_weeks >= 0
        /\ plans[p].peak_weeks >= 0 /\ plans[p].taper_weeks >= 0
        /\ plans[p].base_weeks + plans[p].build_weeks
             + plans[p].peak_weeks + plans[p].taper_weeks = plans[p].total_weeks

(***************************************************************************)
(* C9: after any sequence of goal requests served one after the other at   *)
(* most one goal is ACTIVE, and activate_goal leaves its target ACTIVE and *)
(* every goal that was ACTIVE before it PAUSED.                            *)
(***************************************************************************)
ActivationExclusive ==
    last.op = "activate" =>
        /\ goals[last.goal].status = "ACTIVE"
        /\ ActiveGoals = {last.goal}

C9_AtMostOneActive ==
    /\ Cardinality(ActiveGoals) <= 1
    /\ ActivationExclusive

(***************************************************************************)
(* C10: once two concurrent goal-creation or activation requests have both *)
(* finished, at most one goal is ACTIVE, whatever the interleaving.        *)
(***************************************************************************)
C10_AtMostOneActiveAfterRace ==
    (\A r \in Requests : reqs[r].pc = "done") => Cardinality(ActiveGoals) <= 1

(***************************************************************************)
(* Completions, refreshes and goal-status changes on the plan of one goal  *)
(***************************************************************************)
NextComplete ==
    \/ \E days \in {70} : goals = << >> /\ CreateTriathlonGoal(days)
    \/ \E script \in GoalScripts :
           goals = << >> /\ CreateGoal("marathon", today + 30, script, FALSE)
    \/ \E g \in GoalIds : CreateAdaptivePlan(g)
    \/ \E wid \in WorkoutIds, fb \in FeedbackInputs, fault \in BOOLEAN :
           CompleteWorkout(wid, fb, fault)
    \/ \E p \in PlanIds, fault \in BOOLEAN : UpdateRolling(p, fault)
    \/ \E d \in {21} : Tick(d)
    \/ \E g \in GoalIds : PauseGoal(g)
    \/ \E g \in GoalIds : ActivateGoal(g)
    \/ \E g \in GoalIds : CancelGoal(g)
    \/ \E g \in GoalIds : CompleteGoal(g)

SpecComplete == Init /\ [][NextComplete]_vars

\* a WorkoutLog row references the workout
HasLog(ls, wid) == \E i \in 1..Len(ls) : ls[i].workout_id = wid

(***************************************************************************)
(* C11: complete_workout on a workout that already has a WorkoutLog adds   *)
(* no log and changes no table; a workout that has a log stays completed   *)
(* through every completion, refresh and goal-status request.              *)
(***************************************************************************)
C11_CompletionIdempotent ==
    [][/\ (last'.op = "complete" /\ HasLog(logs, last'.workout)) =>
              UNCHANGED <<goals, plans, workouts, logs, today>>
       /\ \A w \in WorkoutIds : HasLog(logs, w) => is_completed(w)']_vars

\* a second completion of a logged workout, on a goal that was paused since
C11_Witness ==
    /\ last.op = "complete"
    /\ last.path = "already_completed"
    /\ HasLog(logs, last.workout)
    /\ goals[plans[last.plan].goal_id].status = "PAUSED"

(***************************************************************************)
(* C12: when the refresh that complete_workout triggers fails, the         *)
(* WorkoutLog of that completion is persisted, the call returns without an *)
(* exception and no workout of the failed refresh is persisted.            *)
(***************************************************************************)
C12_RefreshFailureIsolated ==
    [][(last'.op = "complete" /\ last'.path = "refresh_failed") =>
           /\ Len(logs') = Len(logs) + 1
           /\ SubSeq(logs', 1, Len(logs)) = logs
           /\ logs'[Len(logs')].workout_id = last'.workout
           /\ ~last'.raised
           /\ workouts' = workouts]_vars

C12_Witness ==
    /\ last.op = "complete"
    /\ last.path = "refresh_failed"
    /\ HasLog(logs, last.workout)
    /\ ~last.raised

(***************************************************************************)
(* Feedback aggregation and adaptation on given logs and a given week      *)
(***************************************************************************)
\* WorkoutIntensity, lowest tier first
Tiers == <<"RECOVERY", "EASY", "MODERATE", "HARD", "VERY_HARD">>
TierOf(i) == CHOOSE k \in 1..Len(Tiers) : Tiers[k] = i

\* (perceived_exertion, energy_level) of the logs of a short history; 0 is
\* a rating that was not given
RatingPairs == {<<ex, en>> : ex \in {0, 3, 4, 6, 7}, en \in {0, 4, 5, 7, 8}}
\* the ratings of a long history
LongRatingPairs == {<<7, 4>>, <<1, 8>>, <<3, 0>>}

\* the WorkoutLog rows of a history, one completion per day from day 1 on
LogsOf(ratings) ==
    [i \in 1..Len(ratings) |->
        [workout_id |-> i, goal_id |-> 1, completed_date |-> i,
         perceived_exertion |-> ratings[i][1], energy_level |-> ratings[i][2]]]

\* long histories are k logs of one rating pair followed by logs of another
FeedbackLogs ==
    {LogsOf([i \in 1..n |-> IF i <= k THEN a ELSE b]) :
        n \in 0..MaxLogs, k \in 0..MaxLogs, a \in LongRatingPairs, b \in LongRatingPairs}
    \cup {LogsOf(r) : r \in UNION {[1..n -> RatingPairs] : n \in 1..2}}

\* the days on which the feedback is aggregated: every log inside the
\* window, the older ones outside, all outside
AnalysisDays == {MaxLogs, MaxLogs + 10, MaxLogs + 20}

\* the weeks handed to the adaptation step
SynthesizedWeeks ==
    {<<Descriptor(0, t, "Session", i, 45)>> :
        t \in {"RUN", "REST"}, i \in {Tiers[k] : k \in 1..Len(Tiers)}}
    \cup {generate_week_workouts("triathlon", 3)}

InitAdapt ==
    /\ goals = << >>
    /\ plans = << >>
    /\ workouts = << >>
    /\ logs \in FeedbackLogs
    /\ today \in AnalysisDays
    /\ last = NoCall
    /\ reqs = [r \in Requests |-> Idle]

\* _analyze_recent_feedback as called by get_plan_adaptation_status
AnalyzeFeedback ==
    /\ last' = [NoCall EXCEPT !.op = "analyze",
                              !.feedback = analyze_recent_feedback(logs, today)]
    /\ UNCHANGED <<goals, plans, workouts, logs, today, reqs>>

\* the adaptation step of _generate_adaptive_workouts on one week
AdaptWeek(week) ==
    /\ LET feedback == analyze_recent_feedback(logs, today)
       IN last' = [NoCall EXCEPT !.op = "adapt", !.feedback = feedback,
                       !.week = week,
                       !.adapted = adapt_workouts_based_feedback(week, feedback)]
    /\ UNCHANGED <<goals, plans, workouts, logs, today, reqs>>

NextAdapt ==
    \/ AnalyzeFeedback
    \/ \E week \in SynthesizedWeeks : AdaptWeek(week)

SpecAdapt == InitAdapt /\ [][NextAdapt]_vars

\* the logs the window holds, and the ones the aggregator averages: those
\* with fewer than FEEDBACK_LIMIT newer logs in the window
InWindow == {i \in 1..Len(logs) : logs[i].completed_date >= today - LOOKBACK_DAYS}
Averaged ==
    {i \in InWindow :
        Cardinality({j \in InWindow : logs[j].completed_date > logs[i].completed_date})
            < FEEDBACK_LIMIT}

RECURSIVE ExertionSum(_)
ExertionSum(S) ==
    IF S = {} THEN 0
    ELSE LET i == CHOOSE j \in S : TRUE
         IN logs[i].perceived_exertion + ExertionSum(S \ {i})

RECURSIVE EnergySum(_)
EnergySum(S) ==
    IF S = {} THEN 0
    ELSE LET i == CHOOSE j \in S : TRUE
         IN logs[i].energy_level + EnergySum(S \ {i})

Aggregated == last.op \in {"analyze", "adapt"}

\* the threshold rule on the averages of the logs S, each metric rated 1..10
ThresholdRule(S) ==
    LET n == Cardinality(S)
    IN /\ (\A i \in S : logs[i].perceived_exertion \in 1..10) =>
              last.feedback.intensity_adjustment =
                  IF ExertionSum(S) >= 7 * n THEN "decrease"
                  ELSE IF ExertionSum(S) <= 3 * n THEN "increase"
                  ELSE "maintain"
       /\ (\A i \in S : logs[i].energy_level \in 1..10) =>
              last.feedback.recovery_adjustment =
                  IF EnergySum(S) <= 4 * n THEN "more_rest"
                  ELSE IF EnergySum(S) >= 8 * n THEN "can_push_harder"
                  ELSE "maintain"

(***************************************************************************)
(* C13 as stated: for every non-empty set of logs in the lookback window   *)
(* with ratings in 1..10, intensity_adjustment is decrease iff the average *)
(* exertion is >= 7, increase iff <= 3, maintain otherwise, and            *)
(* recovery_adjustment is more_rest iff the average energy is <= 4,        *)
(* can_push_harder iff >= 8, maintain otherwise.                           *)
(***************************************************************************)
C13_ThresholdsOverWindow ==
    (Aggregated /\ InWindow # {}) => ThresholdRule(InWindow)

(***************************************************************************)
(* C13 amended: the same thresholds hold of the averages over the at most  *)
(* FEEDBACK_LIMIT most recent logs of the lookback window.                 *)
(***************************************************************************)
C13_ThresholdsOverAveraged ==
    (Aggregated /\ InWindow # {}) => ThresholdRule(Averaged)

\* more logs in the window than are averaged, every one rated, and an
\* average at the decrease threshold
C13_Witness ==
    /\ last.op = "analyze"
    /\ Cardinality(InWindow) > FEEDBACK_LIMIT
    /\ \A i \in InWindow : logs[i].perceived_exertion \in 1..10
    /\ ExertionSum(Averaged) = 7 * Cardinality(Averaged)
    /\ last.feedback.intensity_adjustment = "decrease"

(***************************************************************************)
(* C14: with no WorkoutLog in the lookback window the aggregator reports   *)
(* has_feedback = false and the adaptation returns the synthesized week    *)
(* unchanged; a metric without a rated sample in the window yields no      *)
(* adjustment: no exertion rating leaves intensity step and durations      *)
(* alone, no energy rating leaves names and descriptions alone.            *)
(***************************************************************************)
C14_NoFeedbackNoAdaptation ==
    Aggregated =>
        /\ InWindow = {} =>
               /\ ~last.feedback.has_feedback
               /\ last.adapted = last.week
        /\ (\A i \in InWindow : logs[i].perceived_exertion = 0) =>
               /\ last.feedback.intensity_adjustment = "none"
               /\ \A k \in 1..Len(last.week) :
                      last.adapted[k].duration_minutes = last.week[k].duration_minutes
        /\ (\A i \in InWindow : logs[i].energy_level = 0) =>
               /\ last.feedback.recovery_adjustment = "none"
               /\ \A k \in 1..Len(last.week) :
                      /\ last.adapted[k].name = last.week[k].name
                      /\ last.adapted[k].description = last.week[k].description
        /\ (\A i \in InWindow : logs[i].perceived_exertion = 0 /\ logs[i].energy_level = 0) =>
               last.adapted = last.week

\* logs exist, all older than the window, and a week with a moderate
\* session comes back as it was
C14_Witness ==
    /\ last.op = "adapt"
    /\ logs # << >>
    /\ InWindow = {}
    /\ \E k \in 1..Len(last.week) : last.week[k].intensity = "MODERATE"
    /\ last.adapted = last.week

\* the rated samples the aggregator averages
RatedExertion == {i \in Averaged : logs[i].perceived_exertion # 0}
RatedEnergy == {i \in Averaged : logs[i].energy_level # 0}
ExertionHigh ==
    RatedExertion # {} /\ ExertionSum(RatedExertion) >= 7 * Cardinality(RatedExertion)
ExertionLow ==
    RatedExertion # {} /\ ExertionSum(RatedExertion) <= 3 * Cardinality(RatedExertion)
EnergyLow ==
    RatedEnergy # {} /\ EnergySum(RatedEnergy) <= 4 * Cardinality(RatedEnergy)

\* int(d * 0.9) and int(d * 1.1) of a whole number of minutes
Scaled(d, tenths) == (d * tenths) \div 10

(***************************************************************************)
(* C15: with intensity_adjustment = decrease every non-rest workout moves  *)
(* exactly one tier down (recovery stays) and its duration becomes 0.9 x   *)
(* the original; with increase exactly one tier up (very_hard stays) and   *)
(* 1.1 x; rest workouts keep their intensity.  Stated for the weeks whose  *)
(* recovery step does not apply (energy average above 4 or unrated).       *)
(***************************************************************************)
C15_OneTierStep ==
    (last.op = "adapt" /\ ~EnergyLow) =>
        \A k \in 1..Len(last.week) :
            LET w == last.week[k]
                a == last.adapted[k]
            IN IF w.workout_type = "REST"
               THEN a.intensity = w.intensity
               ELSE /\ ExertionHigh =>
                          /\ TierOf(a.intensity) = Max(1, TierOf(w.intensity) - 1)
                          /\ a.duration_minutes = Scaled(w.duration_minutes, 9)
                    /\ ExertionLow =>
                          /\ TierOf(a.intensity) = Min(Len(Tiers), TierOf(w.intensity) + 1)
                          /\ a.duration_minutes = Scaled(w.duration_minutes, 11)

(***************************************************************************)
(* C16: when the aggregated exertion average is >= 7, every non-rest       *)
(* workout of the adapted week has a tier less than or equal to the tier   *)
(* the synthesizer gave it, whatever the recovery adjustment.              *)
(***************************************************************************)
C16_DecreaseIsMonotone ==
    (last.op = "adapt" /\ ExertionHigh) =>
        \A k \in 1..Len(last.week) :
            last.week[k].workout_type # "REST" =>
                TierOf(last.adapted[k].intensity) <= TierOf(last.week[k].intensity)

\* high exertion together with high energy, and a session that went down
C16_Witness ==
    /\ last.op = "adapt"
    /\ ExertionHigh
    /\ last.feedback.recovery_adjustment = "can_push_harder"
    /\ \E k \in 1..Len(last.week) :
           /\ last.week[k].workout_type # "REST"
           /\ TierOf(last.adapted[k].intensity) < TierOf(last.week[k].intensity)

C18_NoCallAfterFailure ==
    last.op = "create_goal" =>
        \A i \in 1..Len(last.calls) :
            last.calls[i] = "fail" => i = Len(last.calls)

\* the rows the deterministic fallback gives a week of a plan
FallbackRows(p, w) ==
    LET phase == get_training_phase(w, plans[p])
        week == fallback_week_workouts(w, phase)
    IN {WorkoutRow(p, w, phase, week[i]) : i \in 1..Len(week)}

(***************************************************************************)
(* C19: a weekly answer of the supplier that is not seven valid items is   *)
(* treated as a failure: the week's persisted workouts are those of the    *)
(* deterministic fallback, and no persisted workout has a day_of_week      *)
(* outside 0..6.                                                           *)
(***************************************************************************)
C19_MalformedWeekFallsBack ==
    /\ \A i \in WorkoutIds : workouts[i].day_of_week \in 0..6
    /\ (last.op = "create_goal" /\ last.path = "claude") =>
           \A w \in last.malformed :
               {workouts[i] : i \in SlotRows(last.plan, w)} = FallbackRows(last.plan, w)

(***************************************************************************)
(* C20: after create_goal has produced a training plan for a goal, the     *)
(* plan's total_weeks and its base, build, peak and taper week counts      *)
(* equal the goal's.                                                       *)
(***************************************************************************)
C20_PlanWeeksEqualGoal ==
    (last.op = "create_goal" /\ last.path \in {"claude", "simple"}) =>
        LET plan == plans[last.plan]
            goal == goals[last.goal]
        IN /\ plan.total_weeks = goal.total_weeks
           /\ plan.base_weeks = goal.base_weeks
           /\ plan.build_weeks = goal.build_weeks
           /\ plan.peak_weeks = goal.peak_weeks
           /\ plan.taper_weeks = goal.taper_weeks

\* the week numbers of the rows a step appended to the Workout table
NewWeeks == {workouts'[i].week_number : i \in (Len(workouts) + 1)..Len(workouts')}

\* a step in which a refresh ran to its end
RefreshStep ==
    \/ last'.op = "refresh" /\ ~last'.raised
    \/ last'.op = "complete" /\ last'.path = "completed"

(***************************************************************************)
(* C21: a refresh that finds max_generated_week - current_week below       *)
(* ROLLING_WEEKS persists exactly the weeks max_generated_week + 1 ..      *)
(* min(current_week + ROLLING_WEEKS, total_weeks), no fewer and no more.   *)
(***************************************************************************)
C21_ExactWeekSet ==
    [][(/\ RefreshStep
        /\ HighestWeek(workouts, last'.plan) - last'.current_week < ROLLING_WEEKS) =>
           NewWeeks = (HighestWeek(workouts, last'.plan) + 1)
                          ..Min(last'.current_week + ROLLING_WEEKS,
                                plans[last'.plan].total_weeks)]_vars

\* the rows of the Workout table that belong to a plan of goal g
WorkoutsOfGoal(g) == {i \in WorkoutIds : workouts[i].training_plan_id \in PlansOfGoal(g)}

NextLifecycle ==
    \/ \E script \in GoalScripts, simple_fails \in BOOLEAN :
           Len(goals) < MaxGoals /\ CreateGoal("marathon", today + 30, script, simple_fails)
    \/ \E days \in {30} : Len(goals) < MaxGoals /\ CreateTriathlonGoal(days)
    \/ \E g \in GoalIds : ActivateGoal(g)
    \/ \E g \in GoalIds : PauseGoal(g)
    \/ \E g \in GoalIds : CancelGoal(g)
    \/ \E g \in GoalIds : ArchiveGoal(g)
    \/ \E g \in GoalIds : CompleteGoal(g)

SpecLifecycle == Init /\ [][NextLifecycle]_vars

(***************************************************************************)
(* C23: after any sequence of goal operations every ACTIVE goal has        *)
(* exactly one TrainingPlan: a failed generator attempt followed by the    *)
(* fallback leaves no second plan, and no goal is ACTIVE without a plan.   *)
(***************************************************************************)
C23_ActiveHasOnePlan ==
    \A g \in GoalIds :
        goals[g].status = "ACTIVE" => Cardinality(PlansOfGoal(g)) = 1

(***************************************************************************)
(* C24: a goal's status only changes along planning -> active ->           *)
(* {completed, paused, cancelled} and paused -> active: a goal that was    *)
(* never active is not paused or cancelled, and a completed or cancelled   *)
(* goal never becomes active again.                                        *)
(***************************************************************************)
C24_StatusLifecycle ==
    [][\A g \in GoalIds :
           \/ goals'[g].status = goals[g].status
           \/ <<goals[g].status, goals'[g].status>> \in
                  {<<"PLANNING", "ACTIVE">>, <<"ACTIVE", "COMPLETED">>,
                   <<"ACTIVE", "PAUSED">>, <<"ACTIVE", "CANCELLED">>,
                   <<"PAUSED", "ACTIVE">>}]_vars

(***************************************************************************)
(* Concurrent completions and rolling refreshes. Each request has its own  *)
(* session: what it read stays in reqs until its commit.                   *)
(***************************************************************************)
\* complete_workout, step 1: the workout is loaded and is_completed checked
BeginComplete(r, wid, fb) ==
    /\ reqs[r].pc = "idle"
    /\ wid \in WorkoutIds
    /\ wid <= MaxWorkoutId
    /\ reqs' = [reqs EXCEPT ![r] = [Idle EXCEPT !.kind = "complete", !.workout = wid,
                    !.plan = workouts[wid].training_plan_id, !.feedback = fb,
                    !.pc = IF is_completed(wid) THEN "done" ELSE "log"]]
    /\ UNCHANGED <<goals, plans, workouts, logs, today, last>>

\* complete_workout, step 2: db.add(workout_log); db.commit()
InsertLog(r) ==
    /\ reqs[r].pc = "log"
    /\ logs' = Append(logs, [workout_id |-> reqs[r].workout,
                             goal_id |-> plans[reqs[r].plan].goal_id,
                             completed_date |-> today,
                             perceived_exertion |-> reqs[r].feedback[1],
                             energy_level |-> reqs[r].feedback[2]])
    /\ reqs' = [reqs EXCEPT ![r].pc = "refresh"]
    /\ UNCHANGED <<goals, plans, workouts, today, last>>

\* update_rolling_plan up to the last db.add: max_generated_week and the
\* recent feedback are read, the new weeks are pending in the session
ReadGenerated(r, p) ==
    LET current_week == CurrentWeek(goals[plans[p].goal_id], today)
        u == update_rolling_plan(workouts, logs, today, p, current_week)
    IN /\ reqs' = [reqs EXCEPT ![r].plan = p, ![r].current_week = current_week,
                               ![r].rows = u.rows,
                               ![r].pc = IF u.generating THEN "weeks" ELSE "done"]
       /\ UNCHANGED <<goals, plans, workouts, logs, today, last>>

\* complete_workout, step 3: the rolling refresh after the log was committed
RefreshAfterLog(r) ==
    /\ reqs[r].pc = "refresh"
    /\ ReadGenerated(r, reqs[r].plan)

\* update_rolling_training_plan, step 1
BeginRefresh(r, p) ==
    /\ reqs[r].pc = "idle"
    /\ p \in PlanIds
    /\ ReadGenerated(r, p)

\* the db.commit() that ends _generate_adaptive_workouts
CommitWeeks(r) ==
    /\ reqs[r].pc = "weeks"
    /\ workouts' = workouts \o reqs[r].rows
    /\ last' = [NoCall EXCEPT !.op = "refresh", !.plan = reqs[r].plan,
                              !.current_week = reqs[r].current_week,
                              !.returned = TRUE, !.created = Len(reqs[r].rows)]
    /\ reqs' = [reqs EXCEPT ![r].pc = "done"]
    /\ UNCHANGED <<goals, plans, logs, today>>

NextConcurrent ==
    \/ \E days \in {70} : goals = << >> /\ CreateTriathlonGoal(days)
    \/ \E g \in GoalIds : CreateAdaptivePlan(g)
    \/ \E d \in {21} : Tick(d)
    \/ \E r \in Requests, wid \in WorkoutIds, fb \in FeedbackInputs : BeginComplete(r, wid, fb)
    \/ \E r \in Requests : InsertLog(r)
    \/ \E r \in Requests : RefreshAfterLog(r)
    \/ \E r \in Requests, p \in PlanIds : BeginRefresh(r, p)
    \/ \E r \in Requests : CommitWeeks(r)

SpecConcurrent == Init /\ [][NextConcurrent]_vars

\* no request is between its first read and its last commit
AllFinished == \A r \in Requests : reqs[r].pc \in {"idle", "done"}

\* the WorkoutLog rows that reference a workout
LogsOfWorkout(wid) == {i \in 1..Len(logs) : logs[i].workout_id = wid}

(***************************************************************************)
(* C25: under every interleaving of two concurrent complete_workout        *)
(* requests for the same workout that has no log yet, at most one          *)
(* WorkoutLog references the workout once both requests have finished.     *)
(***************************************************************************)
C25_OneLogAfterRace ==
    AllFinished => \A wid \in WorkoutIds : Cardinality(LogsOfWorkout(wid)) <= 1

(***************************************************************************)
(* C28: under every interleaving of two concurrent rolling refreshes of    *)
(* the same plan, no week is generated twice: once both have finished each *)
(* (week_number, day_of_week) of the plan has at most one workout.         *)
(***************************************************************************)
C28_NoWeekTwiceAfterRace ==
    AllFinished =>
        \A p \in PlanIds, i, j \in WorkoutIds :
            (/\ workouts[i].training_plan_id = p
             /\ workouts[j].training_plan_id = p
             /\ workouts[i].week_number = workouts[j].week_number
             /\ workouts[i].day_of_week = workouts[j].day_of_week) => i = j

(***************************************************************************)
(* C29: after plan creation and any sequence of rolling refreshes with a   *)
(* current week that never goes back, jumps of several weeks included, the *)
(* week numbers that have workouts in a plan are the gap-free prefix       *)
(* 1..max_generated_week.                                                  *)
(***************************************************************************)
C29_GapFreePrefix ==
    \A p \in PlanIds :
        WeeksOf(workouts, p) = 1..get_max_generated_week(workouts, p)

\* a refresh after a jump of three weeks appended weeks to an adaptive plan
C29_Witness ==
    /\ last.op = "refresh"
    /\ last.created > 0
    /\ last.current_week >= 4
    /\ get_max_generated_week(workouts, last.plan) > last.current_week
    /\ \A w \in 1..get_max_generated_week(workouts, last.plan) : SlotRows(last.plan, w) # {}

(***************************************************************************)
(* The phase tables, the week-to-phase lookups and the distance ramps of   *)
(* the generators, applied to plans of every length                        *)
(***************************************************************************)
\* GoalAnalyzer.analyze: total_weeks of the plan
analyze_total_weeks(goal, now) ==
    IF goal.event_date # Null
    THEN Min(Max(4, (goal.event_date - now) \div 7), 32)
    ELSE 12

\* GoalAnalyzer._calculate_phases; mutant first: the first band ends at 9
calculate_phases_wide_band(total_weeks) ==
    IF total_weeks <= 9
    THEN [base_weeks |-> 4, build_weeks |-> 3, peak_weeks |-> 1, taper_weeks |-> 0]
    ELSE IF total_weeks <= 12
    THEN [base_weeks |-> 6, build_weeks |-> 4, peak_weeks |-> 1, taper_weeks |-> 1]
    ELSE IF total_weeks <= 16
    THEN [base_weeks |-> 8, build_weeks |-> 5, peak_weeks |-> 2, taper_weeks |-> 1]
    ELSE IF total_weeks <= 20
    THEN [base_weeks |-> 10, build_weeks |-> 6, peak_weeks |-> 2, taper_weeks |-> 2]
    ELSE [base_weeks |-> 12, build_weeks |-> 8, peak_weeks |-> 3, taper_weeks |-> 2]
calculate_phases(total_weeks) ==
    IF total_weeks <= 8
    THEN [base_weeks |-> 4, build_weeks |-> 3, peak_weeks |-> 1, taper_weeks |-> 0]
    ELSE IF total_weeks <= 12
    THEN [base_weeks |-> 6, build_weeks |-> 4, peak_weeks |-> 1, taper_weeks |-> 1]
    ELSE IF total_weeks <= 16
    THEN [base_weeks |-> 8, build_weeks |-> 5, peak_weeks |-> 2, taper_weeks |-> 1]
    ELSE IF total_weeks <= 20
    THEN [base_weeks |-> 10, build_weeks |-> 6, peak_weeks |-> 2, taper_weeks |-> 2]
    ELSE [base_weeks |-> 12, build_weeks |-> 8, peak_weeks |-> 3, taper_weeks |-> 2]

\* WorkoutGenerator._get_phase_for_week
get_phase_for_week(week, params) ==
    LET base_end == params.base_weeks
        build_end == base_end + params.build_weeks
        peak_end == build_end + params.peak_weeks
    IN IF week <= base_end THEN "BASE"
       ELSE IF week <= build_end THEN "BUILD"
       ELSE IF week <= peak_end THEN "PEAK"
       ELSE "TAPER"

\* create_simple_training_plan: "Determine phase"
simple_phase(week_num, plan) ==
    IF week_num <= plan.base_weeks THEN "BASE"
    ELSE IF week_num <= plan.base_weeks + plan.build_weeks THEN "BUILD"
    ELSE IF week_num <= plan.base_weeks + plan.build_weeks + plan.peak_weeks THEN "PEAK"
    ELSE "TAPER"

Generators == {"ai", "adaptive", "simple"}

\* the plan row a generator writes for a goal
GeneratedPlan(generator, g, goal, now) ==
    IF generator = "ai"
    THEN NewPlan(g, analyze_total_weeks(goal, now),
                 calculate_phases(analyze_total_weeks(goal, now)))
    ELSE IF generator = "adaptive"
    THEN NewPlan(g, PlanTotalWeeks(goal, now),
                 get_plan_structure(goal.goal_type, PlanTotalWeeks(goal, now)))
    ELSE NewPlan(g, PlanTotalWeeks(goal, now), SimplePhases(PlanTotalWeeks(goal, now)))

\* the phase a generator's lookup gives a week of a plan
PhaseOfWeek(generator, week, plan) ==
    IF generator = "ai" THEN get_phase_for_week(week, plan)
    ELSE IF generator = "adaptive" THEN get_training_phase(week, plan)
    ELSE simple_phase(week, plan)

\* the distance fields of one workout descriptor: distance_miles in
\* millionths of a mile (rounded down), total_yards in yards, Null where the
\* descriptor has no such key
Distances(day, wtype, phase, miles, yards) ==
    [day_of_week |-> day, workout_type |-> wtype, phase |-> phase,
     distance_miles |-> miles, total_yards |-> yards]

\* simple generator, generate_triathlon_week: base_run, base_bike, base_swim
\* and the distance_miles of the seven descriptors (swims are converted to
\* miles by / 1760)
generate_triathlon_week_distances(week, phase) ==
    LET taper == phase = "TAPER"
        r == Min(2000000 + 200000 * week, 6000000)
        b == Min(10000000 + 1000000 * week, 25000000)
        s == Min(500 + 25 * week, 1500)
        base_run == IF taper THEN (r * 7) \div 10 ELSE r
        base_bike == IF taper THEN (b * 7) \div 10 ELSE b
        swim == IF taper THEN (s * 700000) \div 1760 ELSE (s * 1000000) \div 1760
        easy == IF taper THEN (s * 420000) \div 1760 ELSE (s * 600000) \div 1760
    IN << Distances(0, "REST", phase, Null, Null),
          Distances(1, "RUN", phase, base_run, Null),
          Distances(2, "SWIM", phase, swim, Null),
          Distances(3, "BIKE", phase, base_bike, Null),
          Distances(4, "SWIM", phase, easy, Null),
          IF week % 2 = 0
          THEN Distances(5, "RUN", phase, (base_run * 3) \div 2, Null)
          ELSE Distances(5, "BIKE", phase, (base_bike * 6) \div 5, Null),
          Distances(6, "STRENGTH", phase, Null, Null) >>

\* adaptive generator, _generate_week_workouts: the triathlon table
generate_week_workouts_distances(week_num, phase) ==
    << Distances(1, "SWIM", phase, Null, 400 + week_num * 50),
       Distances(2, "BIKE", phase, 8000000 + week_num * 500000, Null),
       Distances(3, "RUN", phase, 2000000 + week_num * 100000, Null),
       Distances(5, "STRENGTH", phase, Null, Null) >>

\* TriathlonWorkoutGenerator.generate_week for a goal without ability text
\* (_parse_fitness_level gives 1.0)
TriathlonWorkoutGenerator_generate_week(week, phase) ==
    LET run_distance == Min(1000000 + week * 50000, 8000000)
        swim_yards == 400 + week * 50
        bike_distance == 8000000 + week * 500000
        long_run == Min(1500000 + week * 75000, 10000000)
        long_bike == (bike_distance * 3) \div 2
    IN << Distances(0, "REST", "BASE", Null, Null),
          Distances(1, "RUN", phase, run_distance, Null),
          Distances(2, "SWIM", phase, Null, swim_yards),
          Distances(3, "BIKE", phase, bike_distance, Null),
          Distances(4, "SWIM", "BASE", Null, 300),
          IF week % 2 = 0
          THEN Distances(5, "RUN", phase, long_run, Null)
          ELSE Distances(5, "BIKE", phase, long_bike, Null),
          Distances(6, "CROSS_TRAINING", "BASE", Null, Null) >>

\* the descriptors a generator's triathlon synthesizer gives a week
SynthesizedWeek(generator, week, phase) ==
    IF generator = "ai" THEN TriathlonWorkoutGenerator_generate_week(week, phase)
    ELSE IF generator = "adaptive" THEN generate_week_workouts_distances(week, phase)
    ELSE generate_triathlon_week_distances(week, phase)

\* Workout(training_plan_id=plan.id, **workout_data)
SynthRow(plan_id, week_num, d) ==
    [training_plan_id |-> plan_id, week_number |-> week_num,
     day_of_week |-> d.day_of_week, workout_type |-> d.workout_type,
     phase |-> d.phase, distance_miles |-> d.distance_miles,
     total_yards |-> d.total_yards]

\* event dates, in weeks from today, of the goals that get a plan
EventWeeks == 1..MaxEventWeeks

InitSynth ==
    /\ goals \in {<<NewGoal(gt, ev, 0)>> :
                     gt \in GoalTypes, ev \in {Null} \cup {7 * k : k \in EventWeeks}}
    /\ plans = << >>
    /\ workouts = << >>
    /\ logs = << >>
    /\ today = 0
    /\ last = NoCall
    /\ reqs = [r \in Requests |-> Idle]

\* a generator analyses the goal and writes the plan row
StartPlan(generator) ==
    /\ plans = << >>
    /\ plans' = <<GeneratedPlan(generator, 1, goals[1], today)>>
    /\ last' = [NoCall EXCEPT !.op = "plan", !.goal = 1, !.plan = 1, !.path = generator]
    /\ UNCHANGED <<goals, workouts, logs, today, reqs>>

\* the generator's triathlon synthesizer produces the next week of the plan
SynthesizeWeek ==
    /\ plans # << >>
    /\ goals[1].goal_type = "triathlon"
    /\ LET week == HighestWeek(workouts, 1) + 1
           ds == SynthesizedWeek(last.path, week, PhaseOfWeek(last.path, week, plans[1]))
       IN /\ week <= plans[1].total_weeks
          /\ workouts' = workouts \o [i \in 1..Len(ds) |-> SynthRow(1, week, ds[i])]
          /\ last' = [last EXCEPT !.op = "synthesize", !.created = Len(ds)]
    /\ UNCHANGED <<goals, plans, logs, today, reqs>>

NextSynth ==
    \/ \E generator \in Generators : StartPlan(generator)
    \/ SynthesizeWeek

SpecSynth == InitSynth /\ [][NextSynth]_vars

(***************************************************************************)
(* C26: every generator's phase table gives every plan of 8 weeks or more  *)
(* a taper of at least one week, the plan of exactly 8 weeks included.     *)
(***************************************************************************)
C26_TaperFromEightWeeks ==
    \A p \in PlanIds : plans[p].total_weeks >= 8 => plans[p].taper_weeks >= 1

\* C26 as the code has it: the taper is at least one week for every plan of
\* more than 8 weeks
C26_TaperAboveEightWeeks ==
    \A p \in PlanIds : plans[p].total_weeks > 8 => plans[p].taper_weeks >= 1

\* the first band above the boundary: a 9-week plan of the AI generator
C26_Witness ==
    /\ last.path = "ai"
    /\ plans # << >>
    /\ plans[1].total_weeks = 9
    /\ plans[1].taper_weeks = 1

\* the week by which every capped ramp of the source has reached its cap
\* (the last one is base_swim = min(500 + week * 25, 1500))
RampCapWeek == 40

\* the rows of the latest synthesized week
LatestRows == SlotRows(1, HighestWeek(workouts, 1))

\* rows i and j fill the same slot: same day, same modality
SameSlot(i, j) ==
    /\ workouts[i].day_of_week = workouts[j].day_of_week
    /\ workouts[i].workout_type = workouts[j].workout_type

\* row j is at least as long as row i in every distance field they carry
NotShorter(i, j) ==
    /\ workouts[i].distance_miles # Null =>
           workouts[i].distance_miles <= workouts[j].distance_miles
    /\ workouts[i].total_yards # Null =>
           workouts[i].total_yards <= workouts[j].total_yards

\* over the weeks that are not taper weeks a slot never gets shorter
RampNonDecreasing ==
    \A j \in LatestRows, i \in WorkoutIds :
        (/\ SameSlot(i, j)
         /\ workouts[i].phase # "TAPER"
         /\ workouts[j].phase # "TAPER") => NotShorter(i, j)

\* a slot never exceeds what it had reached by week RampCapWeek
RampCapped ==
    \A j \in LatestRows, i \in WorkoutIds :
        (SameSlot(i, j) /\ workouts[i].week_number >= RampCapWeek) => NotShorter(j, i)

(***************************************************************************)
(* C27: for every endurance slot a synthesizer generates, the distance or  *)
(* yardage never decreases from week to week over the weeks that are not   *)
(* taper weeks, and it never exceeds a fixed cap that does not depend on   *)
(* the week number, for every week up to total_weeks.                      *)
(***************************************************************************)
C27_BoundedRamp == RampNonDecreasing /\ RampCapped

\* TrainingPhase in the order a plan goes through its phases
PhaseRank(phase) ==
    CASE phase = "BASE" -> 1 [] phase = "BUILD" -> 2 [] phase = "PEAK" -> 3
      [] phase = "TAPER" -> 4

\* the weeks of a plan that its generator's lookup assigns to a phase
WeeksInPhase(generator, plan, phase) ==
    {w \in 1..plan.total_weeks : PhaseOfWeek(generator, w, plan) = phase}

(***************************************************************************)
(* C30: for every plan the week-to-phase lookup over 1..total_weeks runs   *)
(* through Base, Build, Peak, Taper without going back, the number of      *)
(* weeks it assigns to each phase equals the plan's recorded base_weeks,   *)
(* build_weeks, peak_weeks and taper_weeks, and the final week of a plan   *)
(* with taper_weeks >= 1 is a Taper week.                                  *)
(***************************************************************************)
C30_LookupMatchesPhaseCounts ==
    \A p \in PlanIds :
        LET plan == plans[p]
            gen == last.path
        IN /\ \A w \in 1..(plan.total_weeks - 1) :
                  PhaseRank(PhaseOfWeek(gen, w, plan))
                      <= PhaseRank(PhaseOfWeek(gen, w + 1, plan))
           /\ Cardinality(WeeksInPhase(gen, plan, "BASE")) = plan.base_weeks
           /\ Cardinality(WeeksInPhase(gen, plan, "BUILD")) = plan.build_weeks
           /\ Cardinality(WeeksInPhase(gen, plan, "PEAK")) = plan.peak_weeks
           /\ Cardinality(WeeksInPhase(gen, plan, "TAPER")) = plan.taper_weeks
           /\ plan.taper_weeks >= 1 =>
                  PhaseOfWeek(gen, plan.total_weeks, plan) = "TAPER"

====
